---- MODULE Spec2Model ----
(***************************************************************************)
(* Model of go/vt/worker/sqldiffer.go: the SQLDiffWorker.  One thread      *)
(* executes Run() (run -> findTargets, synchronizeReplication, diff, then  *)
(* the cleanup), while other callers may invoke Cancel() at any time.      *)
(* Every blocking call or lock-protected write of the run thread is one    *)
(* step; the outcome of every external call is chosen nondeterministically.*)
(***************************************************************************)
EXTENDS Integers, Sequences, FiniteSets, TLC

\* ---------------------------------------------------------------- bounds
\* number of rdonly replicas the topology holds for each keyspace/shard
NumTablets == 2
\* number of Cancel() calls made by the callers
MaxCancel == 2
\* number of rows a query result stream holds at most
MaxRows == 2
\* the keys of the rows are 1..MaxKey
MaxKey == 3

\* ------------------------------------------------------- worker states
sqlDiffNotSarted == "not started"
sqlDiffDone == "done"
sqlDiffError == "error"
sqlDiffFindTargets == "finding target instances"
sqlDiffSynchronizeReplication == "synchronizing replication"
sqlDiffRunning == "running the diff"
sqlDiffCleanUp == "cleaning up"

sqlDiffWorkerState ==
    {sqlDiffNotSarted, sqlDiffDone, sqlDiffError, sqlDiffFindTargets,
     sqlDiffSynchronizeReplication, sqlDiffRunning, sqlDiffCleanUp}

\* ------------------------------------------------------------- aliases
\* the keyspace/shard of the two SourceSpecs given to NewSQLDiffWorker
SupersetKeyspace == "superset"
SubsetKeyspace == "subset"

\* the zero value of topo.TabletAlias
NoAlias == [keyspace |-> "", uid |-> 0]

\* the rdonly replicas of one keyspace/shard
Replicas(ks) == {[keyspace |-> ks, uid |-> u] : u \in 1..NumTablets}

\* -------------------------------------------------------------- errors
\* an error value: its kind, the replica it names and the underlying cause
MkErr(k, a, c) == [kind |-> k, alias |-> a, cause |-> c]
Nil == MkErr("nil", NoAlias, "")
ErrInterrupted == MkErr("ErrInterrupted", NoAlias, "")

\* fmt.Errorf("Cannot stop slave %v: %v", alias, err)
CannotStopSlave(a, c) == MkErr("Cannot stop slave", a, c)
\* fmt.Errorf("cannot find ChangeSlaveType action for %v: %v", alias, err)
CannotFindAction(a) == MkErr("cannot find ChangeSlaveType action", a, "ErrActionNotFound")

\* no StopSlave call has failed
NoFailure == [target |-> NoAlias, cause |-> ""]

VARIABLES
    pc,             \* position of the thread executing Run()
    state,          \* worker.state
    err,            \* worker.err
    ctxErr,         \* worker.ctx.Err(): "nil" until the context is cancelled
    supersetAlias,  \* worker.superset.alias
    subsetAlias,    \* worker.subset.alias
    cleaner,        \* worker.cleaner: the recorded cleanup actions
    phaseErr,       \* the err returned by synchronizeReplication (line 192)
    runErr,         \* Run's local err: what run() returned
    cerr,           \* Run's local cerr: what cleaner.CleanUp returned
    \* ---- history of the execution, never read by the worker
    cleanUpCalls,   \* number of calls of cleaner.CleanUp
    drained,        \* the cleanup actions cleaner.CleanUp has executed
    remoteCalls,    \* the remote replica control calls invoked, in order
    stopped,        \* replicas on which StopSlave returned success
    stopFailure,    \* the target and cause of the StopSlave call that failed, if any
    goErr,          \* the error returned by differ.Go, if any
    hasDifferences, \* report.HasDifferences() of the diff that completed
    slept,          \* the settling wait of synchronizeReplication has elapsed
    cancelCalls,    \* number of Cancel() calls made
    cancelPc,       \* position of the run thread at the first Cancel()
    \* ---- the callers observing the worker
    mu,             \* worker.mu: "" when unlocked, else the function holding it
    status,         \* what the last StatusAsText or StatusAsHTML call returned
    errRead,        \* what the last Error() call returned, and how it read it
    \* ---- the row subset differ
    streams,        \* the rows of the superset and of the subset query results
    consumed,       \* how many rows were read from each stream
    cur,            \* the current row of each stream
    advance,        \* which streams are to be advanced before the next comparison
    report,         \* the DiffReport being built
    verdicts,       \* the subset rows classified so far, with their category
    dpc             \* position of the differ: "idle", "Go", "done" or "failed"

vars == <<pc, state, err, ctxErr, supersetAlias, subsetAlias, cleaner,
          phaseErr, runErr, cerr, cleanUpCalls, drained, remoteCalls,
          stopped, stopFailure, goErr, hasDifferences, slept, cancelCalls,
          cancelPc, mu, status, errRead, streams, consumed, cur, advance,
          report, verdicts, dpc>>

worker == <<state, err>>
aliases == <<supersetAlias, subsetAlias>>
locals == <<phaseErr, runErr, cerr>>
history == <<cleanUpCalls, drained, remoteCalls, stopped, stopFailure, goErr,
             hasDifferences, slept>>
cancels == <<ctxErr, cancelCalls, cancelPc>>
observer == <<mu, status, errRead>>
differ == <<streams, consumed, cur, advance, report, verdicts, dpc>>

\* no status was asked for yet
NoStatus == [format |-> "", working |-> "", state |-> "", detail |-> ""]
\* Error() was not called yet
NoErrRead == [value |-> Nil, locked |-> FALSE, racing |-> FALSE, called |-> FALSE]

\* NewSQLDiffWorker: a fresh context, an empty cleaner, state not started
NewSQLDiffWorker ==
    /\ pc = "Run"
    /\ state = sqlDiffNotSarted
    /\ err = Nil
    /\ ctxErr = "nil"
    /\ supersetAlias = NoAlias
    /\ subsetAlias = NoAlias
    /\ cleaner = <<>>
    /\ phaseErr = Nil
    /\ runErr = Nil
    /\ cerr = Nil
    /\ cleanUpCalls = 0
    /\ drained = <<>>
    /\ remoteCalls = <<>>
    /\ stopped = {}
    /\ stopFailure = NoFailure
    /\ goErr = Nil
    /\ hasDifferences = FALSE
    /\ slept = FALSE
    /\ cancelCalls = 0
    /\ cancelPc = "none"
    /\ mu = ""

\* the end of a stream: Next() returned no row
EndOfStream == <<>>

\* NewRowSubsetDiffer over two query results, nothing read yet
NewRowSubsetDiffer(superset, subset, at) ==
    /\ streams = [superset |-> superset, subset |-> subset]
    /\ consumed = [superset |-> 0, subset |-> 0]
    /\ cur = [superset |-> EndOfStream, subset |-> EndOfStream]
    /\ advance = [superset |-> TRUE, subset |-> TRUE]
    /\ report = [processedRows |-> 0, discrepancies |-> <<>>]
    /\ verdicts = <<>>
    /\ dpc = at

\* the worker as constructed, nobody having observed it
Init ==
    /\ NewSQLDiffWorker
    /\ status = NoStatus
    /\ errRead = NoErrRead
    /\ NewRowSubsetDiffer(<<>>, <<>>, "idle")

\* ------------------------------------------------- lock-protected writes
\* setState: worker.state = s under worker.mu
setState(s) ==
    /\ mu = ""
    /\ state' = s
    /\ err' = err

\* a recordError that sets the state and leaves the error for later
recordError_stateOnly(e) ==
    /\ mu = ""
    /\ state' = sqlDiffError
    /\ err' = err

\* recordError: worker.state = sqlDiffError and worker.err = e under worker.mu
recordError(e) ==
    /\ mu = ""
    /\ state' = sqlDiffError
    /\ err' = e

\* ---------------------------------------------------------- cancellation
\* a Cancel that also records the interruption in the worker itself
Cancel_recordsError ==
    /\ cancelCalls < MaxCancel
    /\ cancelCalls' = cancelCalls + 1
    /\ ctxErr' = IF ctxErr = "nil" THEN "Canceled" ELSE ctxErr
    /\ cancelPc' = IF cancelPc = "none" THEN pc ELSE cancelPc
    /\ recordError(ErrInterrupted)
    /\ UNCHANGED <<pc, aliases, cleaner, locals, history, observer, differ>>

\* a Cancel that tears the worker down itself, emptying the cleaner
Cancel_tearsDown ==
    /\ cancelCalls < MaxCancel
    /\ cancelCalls' = cancelCalls + 1
    /\ ctxErr' = IF ctxErr = "nil" THEN "Canceled" ELSE ctxErr
    /\ cancelPc' = IF cancelPc = "none" THEN pc ELSE cancelPc
    /\ cleaner' = <<>>
    /\ UNCHANGED <<pc, worker, aliases, locals, history, observer, differ>>

\* Cancel: worker.ctxCancel(); cancelling a cancelled context changes nothing
Cancel ==
    /\ cancelCalls < MaxCancel
    /\ cancelCalls' = cancelCalls + 1
    /\ ctxErr' = IF ctxErr = "nil" THEN "Canceled" ELSE ctxErr
    /\ cancelPc' = IF cancelPc = "none" THEN pc ELSE cancelPc
    /\ UNCHANGED <<pc, worker, aliases, cleaner, locals, history, observer, differ>>

\* checkInterrupted's verdict on worker.ctx: Done() is closed, and not by a deadline
interrupted(e) == e # "nil" /\ e # "DeadlineExceeded"

\* checkInterrupted called at one of run's checkpoints: when interrupted it
\* records topo.ErrInterrupted and run() returns it, else run() goes on
checkInterrupted(onTrue, onFalse) ==
    IF interrupted(ctxErr)
    THEN /\ recordError(ErrInterrupted)
         /\ pc' = onTrue
    ELSE /\ UNCHANGED worker
         /\ pc' = onFalse

\* ------------------------------------------------------ the cleaner stack
\* wrangler.RecordChangeSlaveTypeAction(cleaner, alias, tabletType)
RecordChangeSlaveTypeAction(cl, a, t) ==
    Append(cl, [name |-> "ChangeSlaveTypeAction", target |-> a, tabletType |-> t])

\* wrangler.RecordStartSlaveAction(cleaner, tablet)
RecordStartSlaveAction(cl, a) ==
    Append(cl, [name |-> "StartSlaveAction", target |-> a, tabletType |-> ""])

\* wrangler.FindChangeSlaveTypeActionByTarget: the position of the recorded
\* ChangeSlaveType action of the target, 0 when there is none (an error)
FindChangeSlaveTypeActionByTarget(cl, a) ==
    LET found == {i \in 1..Len(cl) :
                    cl[i].name = "ChangeSlaveTypeAction" /\ cl[i].target = a}
    IN IF found = {} THEN 0 ELSE CHOOSE i \in found : \A j \in found : i <= j

\* lines 259-264 and 287-292: record StartSlave for the tablet, then turn its
\* recorded ChangeSlaveType(rdonly) into ChangeSlaveType(spare)
RecordUndo(cl, a) ==
    LET withStart == RecordStartSlaveAction(cl, a)
        i == FindChangeSlaveTypeActionByTarget(withStart, a)
    IN [cleaner |-> IF i = 0 THEN withStart
                    ELSE [withStart EXCEPT ![i].tabletType = "spare"],
        err |-> IF i = 0 THEN CannotFindAction(a) ELSE Nil]

\* the remote replica control call one cleanup action makes when it is undone
CleanUpCall(action) ==
    IF action.name = "StartSlaveAction"
    THEN [call |-> "StartSlave", target |-> action.target]
    ELSE [call |-> "ChangeType", target |-> action.target]

\* the calls made while draining the cleaner: one per recorded action
CleanUpCalls(cl) == [i \in 1..Len(cl) |-> CleanUpCall(cl[i])]

\* ------------------------------------------------------------ findTargets
\* findChecker: resolve one rdonly replica of the keyspace/shard, change it to
\* a checker (a remote serving-role change) and record the action that takes
\* it back; out is the outcome of the external calls
findChecker(cl, ks, a, out) ==
    IF out = "NotFound"
    THEN [alias |-> NoAlias, err |-> MkErr("no rdonly replica", NoAlias, ks),
          cleaner |-> cl, calls |-> <<>>]
    ELSE IF out = "ChangeTypeFailed"
    THEN [alias |-> NoAlias, err |-> MkErr("cannot change type", a, "rpc error"),
          cleaner |-> cl, calls |-> <<[call |-> "ChangeType", target |-> a]>>]
    ELSE [alias |-> a, err |-> Nil,
          cleaner |-> RecordChangeSlaveTypeAction(cl, a, "rdonly"),
          calls |-> <<[call |-> "ChangeType", target |-> a]>>]

FindCheckerOutcomes == {"ok", "NotFound", "ChangeTypeFailed"}

\* Run calls run, run calls findTargets: setState(sqlDiffFindTargets)
findTargets_setState ==
    /\ pc = "Run"
    /\ setState(sqlDiffFindTargets)
    /\ pc' = "findTargets_superset"
    /\ UNCHANGED <<aliases, cleaner, locals, history, cancels, observer, differ>>

\* lines 219-222: worker.superset.alias, err = findChecker(...)
findTargets_superset ==
    /\ pc = "findTargets_superset"
    /\ \E a \in Replicas(SupersetKeyspace), out \in FindCheckerOutcomes :
         LET r == findChecker(cleaner, SupersetKeyspace, a, out) IN
         /\ supersetAlias' = r.alias
         /\ cleaner' = r.cleaner
         /\ remoteCalls' = remoteCalls \o r.calls
         /\ runErr' = r.err
         /\ pc' = IF r.err # Nil THEN "Run_setCleanUp" ELSE "findTargets_subset"
    /\ UNCHANGED <<worker, slept, subsetAlias, phaseErr, cerr, cleanUpCalls, drained, stopped,
                   stopFailure, goErr, hasDifferences, cancels, observer, differ>>

\* a findTargets that goes on after findChecker failed for the subset
findTargets_subset_ignoresError ==
    /\ pc = "findTargets_subset"
    /\ \E a \in Replicas(SubsetKeyspace), out \in FindCheckerOutcomes :
         LET r == findChecker(cleaner, SubsetKeyspace, a, out) IN
         /\ subsetAlias' = r.alias
         /\ cleaner' = r.cleaner
         /\ remoteCalls' = remoteCalls \o r.calls
         /\ runErr' = r.err
         /\ pc' = "run_check187"
    /\ UNCHANGED <<worker, slept, supersetAlias, phaseErr, cerr, cleanUpCalls, drained,
                   stopped, stopFailure, goErr, hasDifferences, cancels, observer, differ>>

\* lines 225-230: worker.subset.alias, err = findChecker(...)
findTargets_subset ==
    /\ pc = "findTargets_subset"
    /\ \E a \in Replicas(SubsetKeyspace), out \in FindCheckerOutcomes :
         LET r == findChecker(cleaner, SubsetKeyspace, a, out) IN
         /\ subsetAlias' = r.alias
         /\ cleaner' = r.cleaner
         /\ remoteCalls' = remoteCalls \o r.calls
         /\ runErr' = r.err
         /\ pc' = IF r.err # Nil THEN "Run_setCleanUp" ELSE "run_check187"
    /\ UNCHANGED <<worker, slept, supersetAlias, phaseErr, cerr, cleanUpCalls, drained, stopped,
                   stopFailure, goErr, hasDifferences, cancels, observer, differ>>

\* lines 187-189: the checkpoint after findTargets
run_check187 ==
    /\ pc = "run_check187"
    /\ checkInterrupted("Run_setCleanUp", "sync_setState")
    /\ runErr' = IF interrupted(ctxErr) THEN ErrInterrupted ELSE runErr
    /\ UNCHANGED <<aliases, cleaner, phaseErr, cerr, history, cancels, observer, differ>>

\* ------------------------------------------------- synchronizeReplication
\* the causes a remote StopSlave call bounded by a 60s timeout can fail with;
\* "context canceled" needs the parent context worker.ctx to be cancelled
StopSlaveFailures(e) ==
    {"DeadlineExceeded", "rpc error"} \cup
    (IF e # "nil" THEN {"context canceled"} ELSE {})

\* line 239: setState(sqlDiffSynchronizeReplication)
sync_setState ==
    /\ pc = "sync_setState"
    /\ setState(sqlDiffSynchronizeReplication)
    /\ pc' = "sync_getSubsetTablet"
    /\ UNCHANGED <<aliases, cleaner, locals, history, cancels, observer, differ>>

\* lines 243-246: GetTablet(worker.subset.alias); its error is returned as is
sync_getSubsetTablet ==
    /\ pc = "sync_getSubsetTablet"
    /\ \E ok \in BOOLEAN :
         IF ok
         THEN /\ pc' = "sync_stopSubset"
              /\ UNCHANGED phaseErr
         ELSE /\ pc' = "run_check193"
              /\ phaseErr' = MkErr("GetTablet failed", subsetAlias, "topo error")
    /\ UNCHANGED <<worker, aliases, cleaner, runErr, cerr, history, cancels, observer, differ>>

\* a synchronizeReplication that records the StartSlave undo before it knows
\* whether StopSlave succeeded
sync_stopSubset_recordsFirst ==
    /\ pc = "sync_stopSubset"
    /\ remoteCalls' = Append(remoteCalls, [call |-> "StopSlave", target |-> subsetAlias])
    /\ cleaner' = RecordStartSlaveAction(cleaner, subsetAlias)
    /\ \/ /\ stopped' = stopped \cup {subsetAlias}
          /\ pc' = "sync_check253"
          /\ UNCHANGED <<phaseErr, stopFailure>>
       \/ \E c \in StopSlaveFailures(ctxErr) :
            /\ phaseErr' = CannotStopSlave(subsetAlias, c)
            /\ stopFailure' = [target |-> subsetAlias, cause |-> c]
            /\ pc' = "run_check193"
            /\ UNCHANGED stopped
    /\ UNCHANGED <<worker, slept, aliases, runErr, cerr, cleanUpCalls, drained, goErr,
                   hasDifferences, cancels, observer, differ>>

\* lines 247-252: StopSlave on the subset tablet under a 60s timeout
sync_stopSubset ==
    /\ pc = "sync_stopSubset"
    /\ remoteCalls' = Append(remoteCalls, [call |-> "StopSlave", target |-> subsetAlias])
    /\ \/ /\ stopped' = stopped \cup {subsetAlias}
          /\ pc' = "sync_check253"
          /\ UNCHANGED <<phaseErr, stopFailure>>
       \/ \E c \in StopSlaveFailures(ctxErr) :
            /\ phaseErr' = CannotStopSlave(subsetAlias, c)
            /\ stopFailure' = [target |-> subsetAlias, cause |-> c]
            /\ pc' = "run_check193"
            /\ UNCHANGED stopped
    /\ UNCHANGED <<worker, slept, aliases, cleaner, runErr, cerr, cleanUpCalls, drained, goErr,
                   hasDifferences, cancels, observer, differ>>

\* lines 253-255: the checkpoint after the subset halt
sync_check253 ==
    /\ pc = "sync_check253"
    /\ checkInterrupted("run_check193", "sync_recordSubset")
    /\ phaseErr' = IF interrupted(ctxErr) THEN ErrInterrupted ELSE phaseErr
    /\ UNCHANGED <<aliases, cleaner, runErr, cerr, history, cancels, observer, differ>>

\* lines 259-264: record the undo of the subset halt
sync_recordSubset ==
    /\ pc = "sync_recordSubset"
    /\ LET r == RecordUndo(cleaner, subsetAlias) IN
         /\ cleaner' = r.cleaner
         /\ phaseErr' = IF r.err # Nil THEN r.err ELSE phaseErr
         /\ pc' = IF r.err # Nil THEN "run_check193" ELSE "sync_sleep"
    /\ UNCHANGED <<worker, aliases, runErr, cerr, history, cancels, observer, differ>>

\* line 267: time.Sleep(5 * time.Second)
sync_sleep ==
    /\ pc = "sync_sleep"
    /\ pc' = "sync_check268"
    /\ slept' = TRUE
    /\ UNCHANGED <<worker, aliases, cleaner, locals, cleanUpCalls, drained,
                   remoteCalls, stopped, stopFailure, goErr, hasDifferences,
                   cancels, observer, differ>>

\* a checkpoint after the settling wait that records the interruption and
\* goes on to the superset all the same
sync_check268_goesOn ==
    /\ pc = "sync_check268"
    /\ checkInterrupted("sync_getSupersetTablet", "sync_getSupersetTablet")
    /\ phaseErr' = IF interrupted(ctxErr) THEN ErrInterrupted ELSE phaseErr
    /\ UNCHANGED <<aliases, cleaner, runErr, cerr, history, cancels, observer, differ>>

\* lines 268-270: the checkpoint after the settling wait
sync_check268 ==
    /\ pc = "sync_check268"
    /\ checkInterrupted("run_check193", "sync_getSupersetTablet")
    /\ phaseErr' = IF interrupted(ctxErr) THEN ErrInterrupted ELSE phaseErr
    /\ UNCHANGED <<aliases, cleaner, runErr, cerr, history, cancels, observer, differ>>

\* lines 274-277: GetTablet(worker.superset.alias)
sync_getSupersetTablet ==
    /\ pc = "sync_getSupersetTablet"
    /\ \E ok \in BOOLEAN :
         IF ok
         THEN /\ pc' = "sync_stopSuperset"
              /\ UNCHANGED phaseErr
         ELSE /\ pc' = "run_check193"
              /\ phaseErr' = MkErr("GetTablet failed", supersetAlias, "topo error")
    /\ UNCHANGED <<worker, aliases, cleaner, runErr, cerr, history, cancels, observer, differ>>

\* lines 278-283: StopSlave on the superset tablet under a 60s timeout
sync_stopSuperset ==
    /\ pc = "sync_stopSuperset"
    /\ remoteCalls' = Append(remoteCalls, [call |-> "StopSlave", target |-> supersetAlias])
    /\ \/ /\ stopped' = stopped \cup {supersetAlias}
          /\ pc' = "sync_recordSuperset"
          /\ UNCHANGED <<phaseErr, stopFailure>>
       \/ \E c \in StopSlaveFailures(ctxErr) :
            /\ phaseErr' = CannotStopSlave(supersetAlias, c)
            /\ stopFailure' = [target |-> supersetAlias, cause |-> c]
            /\ pc' = "run_check193"
            /\ UNCHANGED stopped
    /\ UNCHANGED <<worker, slept, aliases, cleaner, runErr, cerr, cleanUpCalls, drained, goErr,
                   hasDifferences, cancels, observer, differ>>

\* lines 287-294: record the undo of the superset halt, return nil
sync_recordSuperset ==
    /\ pc = "sync_recordSuperset"
    /\ LET r == RecordUndo(cleaner, supersetAlias) IN
         /\ cleaner' = r.cleaner
         /\ phaseErr' = IF r.err # Nil THEN r.err ELSE phaseErr
         /\ pc' = IF r.err # Nil THEN "run_check193" ELSE "run_check198"
    /\ UNCHANGED <<worker, aliases, runErr, cerr, history, cancels, observer, differ>>

\* a run() that takes every failure of synchronizeReplication for an interruption
syncFailure_alwaysInterrupted(isInterrupted, e) == ErrInterrupted

\* lines 192-197: what run() returns when synchronizeReplication failed with e
syncFailure(isInterrupted, e) == IF isInterrupted THEN ErrInterrupted ELSE e

\* lines 192-197: synchronizeReplication returned an error
run_check193 ==
    /\ pc = "run_check193"
    /\ checkInterrupted("Run_setCleanUp", "Run_setCleanUp")
    /\ runErr' = syncFailure(interrupted(ctxErr), phaseErr)
    /\ UNCHANGED <<aliases, cleaner, phaseErr, cerr, history, cancels, observer, differ>>

\* lines 198-200: the checkpoint after synchronizeReplication
run_check198 ==
    /\ pc = "run_check198"
    /\ checkInterrupted("Run_setCleanUp", "diff_setState")
    /\ runErr' = IF interrupted(ctxErr) THEN ErrInterrupted ELSE runErr
    /\ UNCHANGED <<aliases, cleaner, phaseErr, cerr, history, cancels, observer, differ>>

\* ------------------------------------------------------------------- diff
\* line 303: setState(sqlDiffRunning)
diff_setState ==
    /\ pc = "diff_setState"
    /\ setState(sqlDiffRunning)
    /\ pc' = "diff_supersetReader"
    /\ UNCHANGED <<aliases, cleaner, locals, history, cancels, observer, differ>>

\* lines 308-313: NewQueryResultReaderForTablet for the superset
diff_supersetReader ==
    /\ pc = "diff_supersetReader"
    /\ \E ok \in BOOLEAN :
         IF ok
         THEN /\ pc' = "diff_subsetReader"
              /\ UNCHANGED runErr
         ELSE /\ pc' = "Run_setCleanUp"
              /\ runErr' = MkErr("NewQueryResultReaderForTablet failed", supersetAlias, "")
    /\ UNCHANGED <<worker, aliases, cleaner, phaseErr, cerr, history, cancels, observer, differ>>

\* lines 315-320: NewQueryResultReaderForTablet for the subset
diff_subsetReader ==
    /\ pc = "diff_subsetReader"
    /\ \E ok \in BOOLEAN :
         IF ok
         THEN /\ pc' = "diff_NewRowSubsetDiffer"
              /\ UNCHANGED runErr
         ELSE /\ pc' = "Run_setCleanUp"
              /\ runErr' = MkErr("NewQueryResultReaderForTablet failed", subsetAlias, "")
    /\ UNCHANGED <<worker, aliases, cleaner, phaseErr, cerr, history, cancels, observer, differ>>

\* lines 322-326: NewRowSubsetDiffer(superset reader, subset reader, 1)
diff_NewRowSubsetDiffer ==
    /\ pc = "diff_NewRowSubsetDiffer"
    /\ \E ok \in BOOLEAN :
         IF ok
         THEN /\ pc' = "diff_Go"
              /\ UNCHANGED runErr
         ELSE /\ pc' = "Run_setCleanUp"
              /\ runErr' = MkErr("NewRowSubsetDiffer failed", NoAlias, "")
    /\ UNCHANGED <<worker, aliases, cleaner, phaseErr, cerr, history, cancels, observer, differ>>

\* a diff that reports the differences it found as a failure of the phase
diffResult_differencesFail(e, differs) ==
    IF e = Nil /\ differs
    THEN MkErr("Found differences", NoAlias, "")
    ELSE Nil

\* lines 328-338: what diff returns after differ.Go returned e and a report
\* that has differences or not: the switch only logs, and diff returns nil in
\* its three cases
diffResult(e, differs) == Nil

\* lines 328-338: report, err := differ.Go(...); log the outcome; return
diff_Go ==
    /\ pc = "diff_Go"
    /\ \E out \in {"error", "differences", "same"} :
         /\ goErr' = IF out = "error"
                     THEN MkErr("Differ.Go failed", NoAlias, "stream read error")
                     ELSE Nil
         /\ hasDifferences' = (out = "differences")
         /\ runErr' = diffResult(goErr', hasDifferences')
    /\ pc' = "Run_setCleanUp"
    /\ UNCHANGED <<worker, slept, aliases, cleaner, phaseErr, cerr, cleanUpCalls,
                   drained, remoteCalls, stopped, stopFailure, cancels, observer, differ>>

\* -------------------------------------------------------------------- Run
\* a Run that returns run's error at once, cleaning up only after a success
Run_setCleanUp_onSuccessOnly ==
    /\ pc = "Run_setCleanUp"
    /\ setState(sqlDiffCleanUp)
    /\ pc' = IF runErr # Nil THEN "Run_finish" ELSE "Run_CleanUp"
    /\ UNCHANGED <<aliases, cleaner, locals, history, cancels, observer, differ>>

\* line 162: run() has returned; setState(sqlDiffCleanUp)
Run_setCleanUp ==
    /\ pc = "Run_setCleanUp"
    /\ setState(sqlDiffCleanUp)
    /\ pc' = "Run_CleanUp"
    /\ UNCHANGED <<aliases, cleaner, locals, history, cancels, observer, differ>>

\* cleaner.CleanUp: executes every recorded action once, each by a remote
\* call, and returns an error when one of them failed
Run_CleanUp ==
    /\ pc = "Run_CleanUp"
    /\ cleanUpCalls' = cleanUpCalls + 1
    /\ drained' = drained \o cleaner
    /\ remoteCalls' = remoteCalls \o CleanUpCalls(cleaner)
    /\ \E failed \in BOOLEAN :
         /\ failed => Len(cleaner) > 0
         /\ cerr' = IF failed THEN MkErr("CleanUp failed", NoAlias, "rpc error") ELSE Nil
    /\ pc' = "Run_finish"
    /\ UNCHANGED <<worker, slept, aliases, cleaner, phaseErr, runErr, stopped,
                   stopFailure, goErr, hasDifferences, cancels, observer, differ>>

\* a Run that forgets the cleanup's error
RunResult_ignoresCleanUp(e, ce) == e

\* a Run in which the cleanup's error replaces run's error
RunResult_cleanUpWins(e, ce) == IF ce # Nil THEN ce ELSE e

\* lines 164-170: the error Run ends with, from run's error and the cleanup's
RunResult(e, ce) ==
    IF ce # Nil
    THEN (IF e # Nil THEN e ELSE ce)
    ELSE e

\* lines 164-175: recordError(err) when there is an error, else setState(sqlDiffDone)
Run_finish ==
    /\ pc = "Run_finish"
    /\ LET e == RunResult(runErr, cerr) IN
         IF e # Nil THEN recordError(e) ELSE setState(sqlDiffDone)
    /\ pc' = "done"
    /\ UNCHANGED <<aliases, cleaner, locals, history, cancels, observer, differ>>

\* -------------------------------------------------------------- observers
\* err.Error() as the status functions call it: a nil error cannot be rendered
ErrorText(e) == IF e = Nil THEN "nil pointer dereference" ELSE e.kind

\* lines 127-137: the text of StatusAsText for a state and a stored error
TextStatus(st, e) ==
    [format |-> "text",
     working |-> SubsetKeyspace,
     state |-> st,
     detail |-> CASE st = sqlDiffError -> "Error: " \o ErrorText(e)
                  [] st = sqlDiffRunning -> "Running..."
                  [] st = sqlDiffDone -> "Success."
                  [] OTHER -> ""]

\* lines 108-119: the markup of StatusAsHTML for a state and a stored error
HTMLStatus(st, e) ==
    [format |-> "html",
     working |-> SubsetKeyspace,
     state |-> st,
     detail |-> CASE st = sqlDiffError -> "<b>Error</b>: " \o ErrorText(e)
                  [] st = sqlDiffRunning -> "<b>Running...</b>"
                  [] st = sqlDiffDone -> "<b>Success.</b>"
                  [] OTHER -> ""]

\* line 124: StatusAsText takes worker.mu
StatusAsText_Lock ==
    /\ mu = ""
    /\ mu' = "StatusAsText"
    /\ UNCHANGED <<pc, worker, aliases, cleaner, locals, history, cancels,
                   status, errRead, differ>>

\* StatusAsText returns without releasing worker.mu
StatusAsText_keepsLock ==
    /\ mu = "StatusAsText"
    /\ status' = TextStatus(state, err)
    /\ mu' = mu
    /\ UNCHANGED <<pc, worker, aliases, cleaner, locals, history, cancels, errRead,
                   differ>>

\* lines 125-137: StatusAsText renders the state and returns, unlocking
StatusAsText ==
    /\ mu = "StatusAsText"
    /\ status' = TextStatus(state, err)
    /\ mu' = ""
    /\ UNCHANGED <<pc, worker, aliases, cleaner, locals, history, cancels, errRead,
                   differ>>

\* line 105: StatusAsHTML takes worker.mu
StatusAsHTML_Lock ==
    /\ mu = ""
    /\ mu' = "StatusAsHTML"
    /\ UNCHANGED <<pc, worker, aliases, cleaner, locals, history, cancels,
                   status, errRead, differ>>

\* lines 106-119: StatusAsHTML renders the state and returns, unlocking
StatusAsHTML ==
    /\ mu = "StatusAsHTML"
    /\ status' = HTMLStatus(state, err)
    /\ mu' = ""
    /\ UNCHANGED <<pc, worker, aliases, cleaner, locals, history, cancels, errRead,
                   differ>>

\* the next step of the run thread is a recordError: a write of worker.err
WritesErrNext ==
    \/ /\ pc \in {"run_check187", "sync_check253", "sync_check268",
                  "run_check193", "run_check198"}
       /\ interrupted(ctxErr)
    \/ /\ pc = "Run_finish"
       /\ RunResult(runErr, cerr) # Nil

\* the error that write stores
PendingErr ==
    IF pc = "Run_finish" THEN RunResult(runErr, cerr) ELSE ErrInterrupted

\* lines 178-180: Error returns worker.err, read without taking worker.mu; a
\* read that races with a write returns the old or the new value
Error ==
    /\ \E v \in {err} \cup (IF WritesErrNext THEN {PendingErr} ELSE {}) :
         errRead' = [value |-> v, locked |-> FALSE, racing |-> WritesErrNext,
                     called |-> TRUE]
    /\ UNCHANGED <<pc, worker, aliases, cleaner, locals, history, cancels,
                   mu, status, differ>>

\* ---------------------------------------------------------- specification
\* the steps of the thread executing Run()
RunThread ==
    \/ findTargets_setState
    \/ findTargets_superset
    \/ findTargets_subset
    \/ run_check187
    \/ sync_setState
    \/ sync_getSubsetTablet
    \/ sync_stopSubset
    \/ sync_check253
    \/ sync_recordSubset
    \/ sync_sleep
    \/ sync_check268
    \/ sync_getSupersetTablet
    \/ sync_stopSuperset
    \/ sync_recordSuperset
    \/ run_check193
    \/ run_check198
    \/ diff_setState
    \/ diff_supersetReader
    \/ diff_subsetReader
    \/ diff_NewRowSubsetDiffer
    \/ diff_Go
    \/ Run_setCleanUp
    \/ Run_CleanUp
    \/ Run_finish

\* Run() and the callers of Cancel()
Next ==
    \/ Cancel
    \/ RunThread

Spec == Init /\ [][Next]_vars

\* Run(), Cancel() and the callers of the status functions
StatusNext ==
    \/ Next
    \/ StatusAsText_Lock
    \/ StatusAsText
    \/ StatusAsHTML_Lock
    \/ StatusAsHTML

StatusSpec == Init /\ [][StatusNext]_vars

\* Run(), Cancel() and the callers of Error()
ErrorNext ==
    \/ Next
    \/ Error

ErrorSpec == Init /\ [][ErrorNext]_vars

\* every call the run thread makes returns, the mutex is granted to a thread
\* that keeps asking for it, and a status function that holds it returns
FairSpec ==
    /\ StatusSpec
    /\ SF_vars(RunThread)
    /\ WF_vars(StatusAsText)
    /\ WF_vars(StatusAsHTML)

\* ------------------------------------------------ the row subset differ
\* everything outside the differ
sqlDiffWorker == <<pc, worker, aliases, cleaner, locals, history, cancels, observer>>

\* the values of the non-key column
Values == {"a", "b"}

\* a row: the key column (keyColumnCount is 1) and the remaining column
Rows == (1..MaxKey) \X Values

Key(row) == row[1]

Rest(row) == row[2]

\* the query results a key-ordered query can stream: keys never decrease
SortedStreams ==
    {s \in UNION {[1..n -> Rows] : n \in 0..MaxRows} :
        \A i \in 1..(Len(s) - 1) : Key(s[i]) <= Key(s[i + 1])}

\* the differ over any two key-sorted query results
DifferInit ==
    /\ NewSQLDiffWorker
    /\ status = NoStatus
    /\ errRead = NoErrRead
    /\ \E superset \in SortedStreams, subset \in SortedStreams :
          NewRowSubsetDiffer(superset, subset, "Go")

\* the categories that are discrepancies of the report
Discrepancies == {"value mismatch", "missing from superset"}

\* the superset key is smaller and the differ drops the subset row with it
Compare_advancesBoth(sup, sub) ==
    IF sub = EndOfStream
    THEN [category |-> "extra", superset |-> TRUE, subset |-> FALSE]
    ELSE IF sup = EndOfStream
    THEN [category |-> "missing from superset", superset |-> FALSE, subset |-> TRUE]
    ELSE IF Key(sup) = Key(sub)
    THEN [category |-> IF Rest(sup) = Rest(sub) THEN "matched" ELSE "value mismatch",
          superset |-> TRUE, subset |-> TRUE]
    ELSE IF Key(sub) < Key(sup)
    THEN [category |-> "missing from superset", superset |-> FALSE, subset |-> TRUE]
    ELSE [category |-> "extra", superset |-> TRUE, subset |-> TRUE]

\* one comparison of the two current rows, one of them at least being a row:
\* the category of the row it settles and the streams it advances
Compare(sup, sub) ==
    IF sub = EndOfStream
    THEN [category |-> "extra", superset |-> TRUE, subset |-> FALSE]
    ELSE IF sup = EndOfStream
    THEN [category |-> "missing from superset", superset |-> FALSE, subset |-> TRUE]
    ELSE IF Key(sup) = Key(sub)
    THEN [category |-> IF Rest(sup) = Rest(sub) THEN "matched" ELSE "value mismatch",
          superset |-> TRUE, subset |-> TRUE]
    ELSE IF Key(sub) < Key(sup)
    THEN [category |-> "missing from superset", superset |-> FALSE, subset |-> TRUE]
    ELSE [category |-> "extra", superset |-> TRUE, subset |-> FALSE]

\* read the next row of the superset stream; the counter moves per row read
differ_nextSuperset ==
    /\ dpc = "Go"
    /\ advance.superset
    /\ IF consumed.superset < Len(streams.superset)
       THEN /\ cur' = [cur EXCEPT !.superset = streams.superset[consumed.superset + 1]]
            /\ consumed' = [consumed EXCEPT !.superset = @ + 1]
            /\ report' = [report EXCEPT !.processedRows = @ + 1]
       ELSE /\ cur' = [cur EXCEPT !.superset = EndOfStream]
            /\ UNCHANGED <<consumed, report>>
    /\ advance' = [advance EXCEPT !.superset = FALSE]
    /\ UNCHANGED <<sqlDiffWorker, streams, verdicts, dpc>>

\* read the next row of the subset stream
differ_nextSubset ==
    /\ dpc = "Go"
    /\ ~advance.superset
    /\ advance.subset
    /\ IF consumed.subset < Len(streams.subset)
       THEN /\ cur' = [cur EXCEPT !.subset = streams.subset[consumed.subset + 1]]
            /\ consumed' = [consumed EXCEPT !.subset = @ + 1]
            /\ report' = [report EXCEPT !.processedRows = @ + 1]
       ELSE /\ cur' = [cur EXCEPT !.subset = EndOfStream]
            /\ UNCHANGED <<consumed, report>>
    /\ advance' = [advance EXCEPT !.subset = FALSE]
    /\ UNCHANGED <<sqlDiffWorker, streams, verdicts, dpc>>

\* a read of either stream fails: the diff is aborted
differ_readError ==
    /\ dpc = "Go"
    /\ advance.superset \/ advance.subset
    /\ dpc' = "failed"
    /\ UNCHANGED <<sqlDiffWorker, streams, consumed, cur, advance, report, verdicts>>

\* compare the two current rows and record what the comparison settles
differ_compare ==
    /\ dpc = "Go"
    /\ ~advance.superset
    /\ ~advance.subset
    /\ cur.superset # EndOfStream \/ cur.subset # EndOfStream
    /\ LET c == Compare(cur.superset, cur.subset)
       IN  /\ verdicts' = IF c.subset
                          THEN Append(verdicts, [row |-> cur.subset, category |-> c.category])
                          ELSE verdicts
           /\ report' = IF c.category \in Discrepancies
                        THEN [report EXCEPT !.discrepancies =
                                 Append(@, [tag |-> c.category, row |-> cur.subset])]
                        ELSE report
           /\ advance' = [superset |-> c.superset, subset |-> c.subset]
    /\ UNCHANGED <<sqlDiffWorker, streams, consumed, cur, dpc>>

\* both streams are exhausted: the report is complete
differ_done ==
    /\ dpc = "Go"
    /\ ~advance.superset
    /\ ~advance.subset
    /\ cur.superset = EndOfStream
    /\ cur.subset = EndOfStream
    /\ dpc' = "done"
    /\ UNCHANGED <<sqlDiffWorker, streams, consumed, cur, advance, report, verdicts>>

DifferNext ==
    \/ differ_nextSuperset
    \/ differ_nextSubset
    \/ differ_readError
    \/ differ_compare
    \/ differ_done

DifferSpec == DifferInit /\ [][DifferNext]_vars

TypeOK ==
    /\ state \in sqlDiffWorkerState
    /\ ctxErr \in {"nil", "Canceled"}
    /\ cancelCalls \in 0..MaxCancel
    /\ cleanUpCalls \in 0..1
    /\ supersetAlias \in Replicas(SupersetKeyspace) \cup {NoAlias}
    /\ subsetAlias \in Replicas(SubsetKeyspace) \cup {NoAlias}

\* ================================================================ claims
\* Run() has returned
RunReturned == pc = "done"

\* run() is still executing: none of Run's lines 162-175 has been reached
InsideRun == pc \notin {"Run_setCleanUp", "Run_CleanUp", "Run_finish", "done"}

\* the positions at which one of the three phases is in progress
PhasePcs ==
    {"findTargets_superset", "findTargets_subset",
     "sync_getSubsetTablet", "sync_stopSubset", "sync_check253",
     "sync_recordSubset", "sync_sleep", "sync_check268",
     "sync_getSupersetTablet", "sync_stopSuperset", "sync_recordSuperset",
     "diff_supersetReader", "diff_subsetReader", "diff_NewRowSubsetDiffer",
     "diff_Go"}

\* the order NotStarted -> FindingTargets -> SynchronizingReplication ->
\* Running -> CleaningUp -> {Done | Error}
Rank(s) ==
    CASE s = sqlDiffNotSarted -> 0
      [] s = sqlDiffFindTargets -> 1
      [] s = sqlDiffSynchronizeReplication -> 2
      [] s = sqlDiffRunning -> 3
      [] s = sqlDiffCleanUp -> 4
      [] s \in {sqlDiffDone, sqlDiffError} -> 5

\* C1: whatever run() returns, cleaner.CleanUp is invoked exactly once: never
\* while run() executes, and always before Run writes its final state (lines
\* 171-175) and returns.
C1_CleanUpExactlyOnce ==
    /\ cleanUpCalls <= 1
    /\ InsideRun => cleanUpCalls = 0
    /\ pc \in {"Run_finish", "done"} => cleanUpCalls = 1 /\ drained = cleaner

\* a cancelled run has returned after its single cleanup
C1_Witness ==
    /\ RunReturned
    /\ runErr = ErrInterrupted
    /\ cleanUpCalls = 1

\* C2: when Run() returns the state is Done iff run() and cleaner.CleanUp both
\* returned no error; otherwise it is Error with a non-nil stored error.
C2_DoneIffNoError ==
    RunReturned =>
        /\ state = sqlDiffDone <=> (runErr = Nil /\ cerr = Nil)
        /\ state # sqlDiffDone => (state = sqlDiffError /\ err # Nil)

\* a run that succeeded and whose cleanup failed ended in Error
C2_Witness ==
    /\ RunReturned
    /\ runErr = Nil
    /\ cerr # Nil
    /\ state = sqlDiffError

\* C3: the observable state never moves backward in the order of the states;
\* in particular once it is Error or Done it is never again non-terminal.
C3_StateMonotonic == [][Rank(state) <= Rank(state')]_vars

\* C4: once the cleanup has been drained, every replica on which StopSlave
\* returned success had a StartSlave action among the drained actions.
C4_EveryHaltHasUndo ==
    cleanUpCalls = 1 =>
        \A a \in stopped :
            \E i \in 1..Len(drained) :
                drained[i].name = "StartSlaveAction" /\ drained[i].target = a

\* C5: a Run() whose context was cancelled before it started ends in Error
\* with topo.ErrInterrupted stored.
C5_CancelBeforeRunInterrupted ==
    (RunReturned /\ cancelPc = "Run") =>
        (state = sqlDiffError /\ err = ErrInterrupted)

\* C6: a Run() whose context was cancelled before it started invokes no remote
\* replica control call, cleanup included.
C6_CancelBeforeRunNoRemoteCall ==
    cancelPc = "Run" => remoteCalls = <<>>

\* C7: a Run() cancelled while one of its phases was in progress ends in Error
\* with topo.ErrInterrupted stored, never in Done.
C7_CancelDuringPhaseInterrupted ==
    (RunReturned /\ cancelPc \in PhasePcs) =>
        (state = sqlDiffError /\ err = ErrInterrupted)

\* C8: topo.ErrInterrupted is stored only when Cancel() has been called; a run
\* never cancelled in which a StopSlave call timed out ends in Error with the
\* wrapped "Cannot stop slave" error naming that replica.
C8_TimeoutIsNotInterruption ==
    /\ err = ErrInterrupted => cancelCalls > 0
    /\ (RunReturned /\ stopFailure.cause = "DeadlineExceeded" /\ cancelCalls = 0) =>
          /\ state = sqlDiffError
          /\ err.kind = "Cannot stop slave"
          /\ err.alias = stopFailure.target
          /\ err.cause = "DeadlineExceeded"

\* a run never cancelled has returned after a StopSlave call timed out
C8_Witness ==
    /\ RunReturned
    /\ stopFailure.cause = "DeadlineExceeded"
    /\ stopFailure.target = supersetAlias
    /\ cancelCalls = 0

\* C9: when cleaner.CleanUp failed, the stored error is run's error if run()
\* returned one, else the cleanup's error; the state is Error in both cases.
C9_CleanUpErrorSubordinate ==
    (RunReturned /\ cerr # Nil) =>
        /\ state = sqlDiffError
        /\ runErr # Nil => err = runErr
        /\ runErr = Nil => err = cerr

\* run() failed and the cleanup failed too
C9_Witness ==
    /\ RunReturned
    /\ cerr # Nil
    /\ runErr # Nil
    /\ runErr # ErrInterrupted

\* C10: when differ.Go returned an error the run ends in Error storing it.
C10_DifferErrorPropagates ==
    (RunReturned /\ goErr # Nil) =>
        (state = sqlDiffError /\ err = goErr)

\* everything of the worker that a call of Cancel() could touch
program == <<pc, state, err, ctxErr, supersetAlias, subsetAlias, cleaner,
             phaseErr, runErr, cerr, cleanUpCalls, drained, remoteCalls>>

\* C11: Cancel() is idempotent: a Cancel() issued after another one changes
\* nothing of the worker (context, state, stored error, cleaner, position of
\* the run), so runs with two calls behave as runs with the first call only;
\* the cleanup is never drained twice.
C11_CancelIdempotent ==
    [][/\ (cancelCalls' # cancelCalls /\ cancelCalls >= 1) => UNCHANGED program
       /\ cleanUpCalls' <= 1]_vars

\* two Cancel() calls were made during a run that has returned
C11_Witness ==
    /\ cancelCalls = 2
    /\ cancelPc \in PhasePcs
    /\ RunReturned
    /\ cleanUpCalls = 1

\* C12: a Cancel() called after Run() has returned leaves the state, the
\* stored error and the cleaner unchanged.
C12_CancelAfterRunNoEffect ==
    [][(RunReturned /\ cancelCalls' # cancelCalls) =>
          UNCHANGED <<pc, state, err, cleaner, drained, cleanUpCalls>>]_vars

\* Cancel() was first called after a run that ended in Done, which is still Done
C12_Witness ==
    /\ RunReturned
    /\ cancelPc = "done"
    /\ state = sqlDiffDone
    /\ err = Nil

\* the keys of a stream are all different
UniqueKeys(s) == \A i, j \in 1..Len(s) : Key(s[i]) = Key(s[j]) => i = j

\* what a subset row is with respect to a superset whose keys are all different
Category(row, superset) ==
    IF \E i \in 1..Len(superset) : superset[i] = row
    THEN "matched"
    ELSE IF \E i \in 1..Len(superset) : Key(superset[i]) = Key(row)
    THEN "value mismatch"
    ELSE "missing from superset"

\* the verdicts that are discrepancies, in the order they were given
RECURSIVE Flagged(_)
Flagged(vs) ==
    IF vs = <<>>
    THEN <<>>
    ELSE LET v == vs[Len(vs)]
             before == Flagged(SubSeq(vs, 1, Len(vs) - 1))
         IN  IF v.category \in Discrepancies
             THEN Append(before, [tag |-> v.category, row |-> v.row])
             ELSE before

\* C13: for any two key-sorted streams the differ gives the subset rows, in
\* order and one verdict each, one of the categories matched, value mismatch
\* and missing from superset; the report flags exactly the mismatched and the
\* missing subset rows and no superset row; the processed-row count is the
\* number of rows read from the superset plus the number read from the subset;
\* a completed diff has read every row and settled every subset row, as what
\* the row is whenever the keys of each stream are all different.
C13_DifferClassifiesEachSubsetRowOnce ==
    /\ report.processedRows = consumed.superset + consumed.subset
    /\ Len(verdicts) <= consumed.subset
    /\ \A i \in 1..Len(verdicts) :
          /\ verdicts[i].row = streams.subset[i]
          /\ verdicts[i].category \in {"matched"} \cup Discrepancies
    /\ report.discrepancies = Flagged(verdicts)
    /\ dpc = "done" =>
          /\ Len(verdicts) = Len(streams.subset)
          /\ consumed.superset = Len(streams.superset)
          /\ consumed.subset = Len(streams.subset)
          /\ (UniqueKeys(streams.superset) /\ UniqueKeys(streams.subset)) =>
                \A i \in 1..Len(verdicts) :
                    verdicts[i].category = Category(verdicts[i].row, streams.superset)

\* a completed diff of a subset with a matched and a missing row against a
\* superset with an extra row: four rows read, one discrepancy
C13_Witness ==
    /\ dpc = "done"
    /\ streams.subset = << <<1, "a">>, <<2, "b">> >>
    /\ streams.superset = << <<1, "a">>, <<3, "a">> >>
    /\ report.processedRows = 4
    /\ report.discrepancies = << [tag |-> "missing from superset", row |-> <<2, "b">>] >>

\* a recorded StartSlave action for the replica a
HasStartSlave(cl, a) ==
    \E i \in 1..Len(cl) : cl[i].name = "StartSlaveAction" /\ cl[i].target = a

\* the actions recorded when the StopSlave call on the replica a failed: the
\* two reservations, and the undo of the subset halt when a is the superset
RecordedBeforeFailure(a) ==
    IF a = subsetAlias
    THEN << [name |-> "ChangeSlaveTypeAction", target |-> supersetAlias, tabletType |-> "rdonly"],
            [name |-> "ChangeSlaveTypeAction", target |-> subsetAlias, tabletType |-> "rdonly"] >>
    ELSE << [name |-> "ChangeSlaveTypeAction", target |-> supersetAlias, tabletType |-> "rdonly"],
            [name |-> "ChangeSlaveTypeAction", target |-> subsetAlias, tabletType |-> "spare"],
            [name |-> "StartSlaveAction", target |-> subsetAlias, tabletType |-> ""] >>

\* C14: a StartSlave action is in the cleaner only for a replica on which
\* StopSlave returned success; after a failed StopSlave there is none for that
\* replica, and the cleanup drains exactly the actions recorded before the
\* failure.
C14_StartSlaveOnlyAfterHalt ==
    /\ \A i \in 1..Len(cleaner) :
          cleaner[i].name = "StartSlaveAction" => cleaner[i].target \in stopped
    /\ stopFailure # NoFailure =>
          /\ ~HasStartSlave(cleaner, stopFailure.target)
          /\ cleaner = RecordedBeforeFailure(stopFailure.target)
          /\ cleanUpCalls = 1 => drained = RecordedBeforeFailure(stopFailure.target)

\* StopSlave failed on the superset after the subset was halted, and the
\* cleanup has been drained
C14_Witness ==
    /\ RunReturned
    /\ stopFailure.target = supersetAlias
    /\ subsetAlias \in stopped
    /\ HasStartSlave(drained, subsetAlias)
    /\ ~HasStartSlave(drained, supersetAlias)

\* no error has been returned or recorded so far
NoErrorYet == err = Nil /\ runErr = Nil /\ phaseErr = Nil

\* C15: the phase states are entered in the order discovery, synchronization,
\* diff: SynchronizingReplication only from FindingTargets with both aliases
\* resolved, Running only from SynchronizingReplication with StopSlave
\* succeeded on both replicas, and neither after an error was returned.
C15_PhasesInOrder ==
    [][/\ (state' = sqlDiffFindTargets /\ state # sqlDiffFindTargets) =>
             state = sqlDiffNotSarted
       /\ (state' = sqlDiffSynchronizeReplication /\ state # sqlDiffSynchronizeReplication) =>
             /\ state = sqlDiffFindTargets
             /\ supersetAlias \in Replicas(SupersetKeyspace)
             /\ subsetAlias \in Replicas(SubsetKeyspace)
             /\ NoErrorYet
       /\ (state' = sqlDiffRunning /\ state # sqlDiffRunning) =>
             /\ state = sqlDiffSynchronizeReplication
             /\ {supersetAlias, subsetAlias} \subseteq stopped
             /\ NoErrorYet
       /\ (~NoErrorYet /\ state' # state) => state' \in {sqlDiffCleanUp, sqlDiffError}
      ]_vars

\* the diff phase has been entered after the two halts
C15_Witness ==
    /\ state = sqlDiffRunning
    /\ pc = "diff_Go"
    /\ {supersetAlias, subsetAlias} \subseteq stopped

\* the step issues StopSlave on the superset replica
IssuesSupersetStop ==
    /\ remoteCalls' # remoteCalls
    /\ remoteCalls'[Len(remoteCalls')] = [call |-> "StopSlave", target |-> supersetAlias]

\* C16: StopSlave is issued on the superset replica only after StopSlave
\* succeeded on the subset replica, the subset's StartSlave was recorded and
\* the settling wait elapsed, and never once a checkpoint observed the
\* cancellation.
C16_SupersetStopAfterSubset ==
    [][IssuesSupersetStop =>
          /\ subsetAlias \in stopped
          /\ HasStartSlave(cleaner, subsetAlias)
          /\ slept
          /\ state = sqlDiffSynchronizeReplication
          /\ err = Nil]_vars

\* StopSlave was issued on the superset replica, and succeeded
C16_Witness ==
    /\ pc = "sync_recordSuperset"
    /\ supersetAlias \in stopped
    /\ slept

\* C20: differences found by the differ are no failure: the diff phase then
\* returns no error, and the run ends in Done when the cleanup succeeds.
C20_DifferencesAreNotErrors ==
    /\ hasDifferences => runErr = Nil
    /\ (RunReturned /\ hasDifferences /\ cerr = Nil) =>
          (state = sqlDiffDone /\ err = Nil)

\* a run whose diff found differences has returned after a clean cleanup
C20_Witness ==
    /\ RunReturned
    /\ hasDifferences
    /\ cerr = Nil
    /\ state = sqlDiffDone

\* C17: no read of worker.err made without holding worker.mu is concurrent
\* with a write of it: every access to state and err is under the mutex.
C17_ErrAccessUnderMutex ==
    errRead.called => (errRead.locked \/ ~errRead.racing)

\* C18: in every reachable state, state = Error implies a non-nil stored
\* error, and no status rendering has dereferenced a nil error.
C18_ErrorStateHasError ==
    /\ state = sqlDiffError => err # Nil
    /\ status.detail \notin {"Error: nil pointer dereference",
                             "<b>Error</b>: nil pointer dereference"}

\* a status function has rendered the Error state with its error
C18_Witness ==
    /\ status.state = sqlDiffError
    /\ status.detail = "Error: ErrInterrupted"
    /\ state = sqlDiffCleanUp

\* C19: every Run() ends: from some point on the run has returned and the
\* state is for ever the one terminal state, Done or Error, it ended in.
C19_RunTerminates ==
    \/ <>[](RunReturned /\ state = sqlDiffDone)
    \/ <>[](RunReturned /\ state = sqlDiffError)

\* a cancelled run has returned while a status function was holding the mutex
C19_Witness ==
    /\ RunReturned
    /\ state = sqlDiffError
    /\ cancelCalls > 0
    /\ mu = "StatusAsText"

====
